---- MODULE Spec2Model ----
(***************************************************************************)
(* A model of vprojkit's main.py: one run of Program over its inputs       *)
(* (.vcxproj project files and .sln solution files), the walk over each    *)
(* project's parsed tree, the macro expansion and list helpers, and the    *)
(* emission of the CMake declarations.                                     *)
(*                                                                         *)
(* Text is a sequence of tokens: the punctuation characters the code       *)
(* looks at ("$", "(", ")", "%", ";", " ", "\\") are one token each, and   *)
(* a word the code never looks inside ("ProjectDir", "MaxSpeed") is one    *)
(* token.  Python's None is the empty option <<>>, a value v that may be   *)
(* None is the option <<v>>.                                               *)
(***************************************************************************)
EXTENDS Integers, Sequences, FiniteSets, TLC

VARIABLES
    inputs,            \* Program.inputs: the input files, in command-line order
    expand_macros_on,  \* Program.expand_macros_on
    targets,           \* Program.targets
    out,               \* what has been written to sys.stdout, one entry per declaration
    pc,                \* where run() stands
    idx,               \* gather_input_files: index of the input path being handled
    sln,               \* gather_projects_from_sln: the suspended generator's frame, or None
    project,           \* run(): input_project, the (path, sln_dir) pair last yielded
    open,              \* the file objects that are open
    error,             \* the exception that ended run(), or None
    node,              \* process_project: the child of the root last taken from the iteration
    nchild,            \* process_project: the number of children taken so far
    yielded,           \* the pairs gather_input_files has yielded so far, each with the
                       \* index of the input it came from
    arg,               \* argument of the helper under test (helper specifications)
    result             \* its return value (helper specifications)

vars == <<inputs, expand_macros_on, targets, out, pc, idx, sln, project,
          open, error, node, nchild, yielded, arg, result>>

-----------------------------------------------------------------------------
(* Bounds of the model *)

MaxTextLen == 4
MaxInputs == 3
MaxSlnLines == 2
MaxChildren == 2

-----------------------------------------------------------------------------
(* Python values *)

None == <<>>
Some(v) == <<v>>
IsNone(o) == o = <<>>
Val(o) == o[1]

\* str.strip(): whitespace removed from both ends
RECURSIVE lstrip(_)
lstrip(s) == IF s # <<>> /\ Head(s) = " " THEN lstrip(Tail(s)) ELSE s

RECURSIVE rstrip(_)
rstrip(s) ==
    IF s # <<>> /\ s[Len(s)] = " " THEN rstrip(SubSeq(s, 1, Len(s) - 1)) ELSE s

strip(s) == rstrip(lstrip(s))

\* str.startswith
startswith(s, p) == Len(s) >= Len(p) /\ SubSeq(s, 1, Len(p)) = p

\* str.replace(old, new) for a one-character old
RECURSIVE replace(_, _, _)
replace(s, old, new) ==
    IF s = <<>> THEN <<>>
    ELSE (IF Head(s) = old THEN <<new>> ELSE <<Head(s)>>) \o replace(Tail(s), old, new)

\* str.split(sep) for a one-character sep: "" splits into [""]
RECURSIVE split(_, _)
split(s, sep) ==
    LET hits == {k \in 1..Len(s) : s[k] = sep}
    IN  IF hits = {} THEN <<s>>
        ELSE LET k == CHOOSE m \in hits : \A n \in hits : m <= n
             IN  <<SubSeq(s, 1, k - 1)>> \o split(SubSeq(s, k + 1, Len(s)), sep)

-----------------------------------------------------------------------------
(* class Target *)

mpath(p) == IF IsNone(p) \/ Val(p) = <<>> THEN p ELSE Some(Val(p) \o <<"\\">>)

\* Target.__init__: project_dir is os.path.dirname(project_path)
NewTarget(project_dir, sln_dir) ==
    [ name |-> None,
      type |-> "None",
      include_directories |-> <<>>,
      compile_definitions |-> <<>>,
      vs_macros |-> [ProjectDir |-> mpath(Some(project_dir)), SolutionDir |-> mpath(sln_dir)],
      unexpected |-> <<>> ]

\* Target.get_macro_expansion: dict.get, None for a name that is no key
Target_get_macro_expansion(target, macro) ==
    IF macro = <<"ProjectDir">> THEN target.vs_macros.ProjectDir
    ELSE IF macro = <<"SolutionDir">> THEN target.vs_macros.SolutionDir
    ELSE None

\* Target.add_unexpected
add_unexpected(target, expectation, actual_text) ==
    [target EXCEPT !.unexpected = Append(@, <<expectation, actual_text>>)]

-----------------------------------------------------------------------------
(* class Program: tables *)

Expectation(tag, text) == [tag |-> tag, text |-> text]

cl_expectations ==
    << Expectation("Optimization", <<"MaxSpeed">>),
       Expectation("RuntimeLibrary", <<"MultiThreadedDLL">>),
       Expectation("PrecompiledHeader", <<>>) >>

link_expectations ==
    << Expectation("OutputFile",
           <<"$", "(", "OutDir", ")", "$", "(", "ProjectName", ")",
             "$", "(", "RADF_BUILD_VER", ")", ".dll">>),
       Expectation("ImportLibrary",
           <<"$", "(", "SolutionDir", ")", "lib", "\\", "$", "(", "RADF_ARCH_RELEASE", ")",
             "\\", "$", "(", "ProjectName", ")", "$", "(", "RADF_BUILD_VER", ")", ".lib">>),
       Expectation("TargetMachine", <<"MachineX64">>) >>

ReleaseCondition == "'$(Configuration)|$(Platform)'=='Release|x64'"

\* Program.node_conditions; an absent Condition attribute is "None"
node_conditions == {"None", ReleaseCondition}

-----------------------------------------------------------------------------
(* Macro expansion *)

\* Program.get_macro_expansion: the current target is the last one
current_target(ts) == ts[Len(ts)]

get_macro_expansion(ts, macro) == Target_get_macro_expansion(current_target(ts), macro)

\* expand_macro without the test of the switch
expand_macro_always(ts, on, macro) ==
    LET expansion == get_macro_expansion(ts, macro)
    IN  IF ~IsNone(expansion) THEN Val(expansion)
        ELSE <<"$", "(">> \o macro \o <<")">>

\* Program.expand_macro
expand_macro(ts, on, macro) ==
    LET expansion == IF on THEN get_macro_expansion(ts, macro) ELSE None
    IN  IF on /\ ~IsNone(expansion) THEN Val(expansion)
        ELSE <<"$", "(">> \o macro \o <<")">>

\* re.sub over _re_vs_macro = \$\(([^)]*)\): the scan goes left to right; at a "$("
\* with a ")" somewhere after it the match runs to the first such ")", its
\* replacement is copied to the result and the scan goes on behind the match
RECURSIVE re_sub_vs_macro(_, _, _)
re_sub_vs_macro(ts, on, text) ==
    IF text = <<>> THEN <<>>
    ELSE LET closes == {k \in 3..Len(text) : text[k] = ")"}
         IN  IF startswith(text, <<"$", "(">>) /\ closes # {}
             THEN LET k == CHOOSE m \in closes : \A n \in closes : m <= n
                  IN  expand_macro(ts, on, SubSeq(text, 3, k - 1))
                          \o re_sub_vs_macro(ts, on, SubSeq(text, k + 1, Len(text)))
             ELSE <<Head(text)>> \o re_sub_vs_macro(ts, on, Tail(text))

\* Program.expand_macros
expand_macros(ts, on, text) == re_sub_vs_macro(ts, on, text)

-----------------------------------------------------------------------------
(* Lists *)

\* Program.parse_list
parse_list(text) == split(text, ";")

\* the filter looking for the placeholder anywhere in the item
RECURSIVE process_items_anywhere(_, _, _)
process_items_anywhere(ts, on, items) ==
    IF items = <<>> THEN <<>>
    ELSE (IF \A k \in 1..(Len(Head(items)) - 1) :
                 ~(Head(items)[k] = "%" /\ Head(items)[k + 1] = "(")
            THEN <<expand_macros(ts, on, Head(items))>> ELSE <<>>)
         \o process_items_anywhere(ts, on, Tail(items))

\* Program.process_list, the comprehension over the items of parse_list
RECURSIVE process_items(_, _, _)
process_items(ts, on, items) ==
    IF items = <<>> THEN <<>>
    ELSE (IF ~startswith(Head(items), <<"%", "(">>)
            THEN <<expand_macros(ts, on, Head(items))>> ELSE <<>>)
         \o process_items(ts, on, Tail(items))

\* Program.process_list on node.text (a str)
process_list(ts, on, text) == process_items(ts, on, parse_list(strip(text)))

\* Program.to_cmake_path
to_cmake_path(path) == replace(path, "\\", "/")

-----------------------------------------------------------------------------
(* The parsed project tree (xml.etree.ElementTree)                         *)
(* An element with no text has text None.  Element.find gives None for a   *)
(* tag the element has no child of.                                        *)

Element(text) == [text |-> Some(text)]
EmptyElement == [text |-> None]

\* Element.find on a settings element (ClCompile, Link): a function from the
\* tags of its children to the children
find(settings, tag) == IF tag \in DOMAIN settings THEN Some(settings[tag]) ELSE None

\* a direct child of the root
XmlNode(tag, condition, label, name, ctype, cl, link) ==
    [ tag |-> tag, Condition |-> condition, Label |-> label,
      ProjectName |-> name, ConfigurationType |-> ctype,
      ClCompile |-> cl, Link |-> link ]

NoSettings == None

PropertyGroup(condition, label, name, ctype) ==
    XmlNode("PropertyGroup", condition, label, name, ctype, NoSettings, NoSettings)

ItemDefinitionGroup(condition, cl, link) ==
    XmlNode("ItemDefinitionGroup", condition, "None", None, None, cl, link)

-----------------------------------------------------------------------------
(* The walk over one child                                                 *)
(* A step of the walk is a pair: the current target as the statements so   *)
(* far left it, and the exception raised, if any.                          *)

Ok(t) == [t |-> t, exc |-> None]
Raise(t, e) == [t |-> t, exc |-> Some(e)]

\* process_project without its filter: every child is visited
node_applies_unconditional(n) == TRUE

\* Program.node_applies
node_applies(n) == n.Condition \in node_conditions

\* the mapping with the other two kinds filled in
target_type_from_xml_mapping_full ==
    [ DynamicLibrary |-> "SHARED_LIBRARY",
      StaticLibrary |-> "STATIC_LIBRARY",
      Application |-> "EXECUTABLE" ]

\* Program._target_type_from_xml_mapping
target_type_from_xml_mapping == [DynamicLibrary |-> "SHARED_LIBRARY"]

\* Program.target_type_from_xml: KeyError for a type that is no key
target_type_from_xml(t, type) ==
    IF type \in {<<k>> : k \in DOMAIN target_type_from_xml_mapping}
    THEN Ok([t EXCEPT !.type = target_type_from_xml_mapping[type[1]]])
    ELSE Raise(t, "KeyError")

\* Program.check_expectations, from the k-th expectation on: find() of a
\* missing settings element or property and strip() of a missing text raise
\* AttributeError; what was appended before stays
RECURSIVE check_expectations_from(_, _, _, _)
check_expectations_from(t, settings, expectations, k) ==
    IF k > Len(expectations) THEN Ok(t)
    ELSE LET ex == expectations[k]
         IN  IF IsNone(settings) THEN Raise(t, "AttributeError")
             ELSE LET el == find(Val(settings), ex.tag)
                  IN  IF IsNone(el) \/ IsNone(Val(el).text) THEN Raise(t, "AttributeError")
                      ELSE LET text == strip(Val(Val(el).text))
                           IN  check_expectations_from(
                                   IF text # ex.text THEN add_unexpected(t, ex, text) ELSE t,
                                   settings, expectations, k + 1)

check_expectations(t, settings, expectations) ==
    check_expectations_from(t, settings, expectations, 1)

\* Program.process_list on the element cl.find(tag) gave: node.text of None
\* and strip() of a missing text raise AttributeError
process_list_of(ts, on, el) ==
    IF IsNone(el) \/ IsNone(Val(el).text) THEN None
    ELSE Some(process_list(ts, on, Val(Val(el).text)))

\* process_project, the body of the loop for a PropertyGroup child
process_property_group(t, n) ==
    IF n.Label = "Globals"
    THEN IF IsNone(n.ProjectName) THEN Raise(t, "AttributeError")
         ELSE Ok([t EXCEPT !.name = Val(n.ProjectName).text])
    ELSE IF n.Label = "Configuration"
    THEN IF IsNone(n.ConfigurationType) THEN Raise(t, "AttributeError")
         ELSE IF IsNone(Val(n.ConfigurationType).text) THEN Raise(t, "KeyError")
         ELSE target_type_from_xml(t, Val(Val(n.ConfigurationType).text))
    ELSE Ok(t)

\* process_project, the body of the loop for an ItemDefinitionGroup child
process_item_definition_group(ts, on, n) ==
    LET t0 == current_target(ts)
        cl == n.ClCompile
    IN  IF IsNone(cl) THEN Raise(t0, "AttributeError")
        ELSE
        LET incs == process_list_of(ts, on, find(Val(cl), "AdditionalIncludeDirectories"))
        IN  IF IsNone(incs) THEN Raise(t0, "AttributeError")
            ELSE
            LET t1 == [t0 EXCEPT !.include_directories = Val(incs)]
                defs == process_list_of(ts, on, find(Val(cl), "PreprocessorDefinitions"))
            IN  IF IsNone(defs) THEN Raise(t1, "AttributeError")
                ELSE
                LET t2 == [t1 EXCEPT !.compile_definitions = Val(defs)]
                    r == check_expectations(t2, cl, cl_expectations)
                IN  IF ~IsNone(r.exc) THEN r
                    ELSE IF r.t.type # "STATIC_LIBRARY"
                    THEN check_expectations(r.t, n.Link, link_expectations)
                    ELSE r

\* process_project, the body of the loop for one child the filter let through
process_node(ts, on, n) ==
    IF n.tag = "PropertyGroup" THEN process_property_group(current_target(ts), n)
    ELSE IF n.tag = "ItemDefinitionGroup" THEN process_item_definition_group(ts, on, n)
    ELSE Ok(current_target(ts))

\* process_project, one turn of the loop: the filter, then the body
visit_child(ts, on, n) ==
    IF node_applies(n) THEN process_node(ts, on, n) ELSE Ok(current_target(ts))

\* start_new_target putting the new target first
start_new_target_front(ts, path_info) ==
    <<NewTarget(path_info.path.dir, path_info.sln_dir)>> \o ts

\* Program.start_new_target
start_new_target(ts, path_info) ==
    Append(ts, NewTarget(path_info.path.dir, path_info.sln_dir))

-----------------------------------------------------------------------------
(* Program.write_output: one entry per declaration written                 *)

RECURSIVE unexpected_comments(_, _)
unexpected_comments(name, unexpected) ==
    IF unexpected = <<>> THEN <<>>
    ELSE <<[decl |-> "#", name |-> name, tag |-> Head(unexpected)[1].tag,
            expected |-> Head(unexpected)[1].text, actual |-> Head(unexpected)[2]]>>
         \o unexpected_comments(name, Tail(unexpected))

RECURSIVE map_to_cmake_path(_)
map_to_cmake_path(paths) ==
    IF paths = <<>> THEN <<>>
    ELSE <<to_cmake_path(Head(paths))>> \o map_to_cmake_path(Tail(paths))

\* the block of one target; only add_executable is written with a newline
\* before it, and ")" closes the creation declaration whether or not one
\* was opened
write_target(target) ==
    (IF target.type = "EXECUTABLE"
       THEN <<[decl |-> "add_executable", name |-> target.name, qualifier |-> "None",
               newline_before |-> TRUE]>>
     ELSE IF target.type = "SHARED_LIBRARY"
       THEN <<[decl |-> "add_library", name |-> target.name, qualifier |-> "SHARED",
               newline_before |-> FALSE]>>
     ELSE IF target.type = "STATIC_LIBRARY"
       THEN <<[decl |-> "add_library", name |-> target.name, qualifier |-> "STATIC",
               newline_before |-> FALSE]>>
     ELSE <<>>)
    \o <<[decl |-> ")"]>>
    \o (IF target.include_directories # <<>>
          THEN <<[decl |-> "target_include_directories", name |-> target.name,
                  items |-> map_to_cmake_path(target.include_directories)]>>
          ELSE <<>>)
    \o (IF target.compile_definitions # <<>>
          THEN <<[decl |-> "target_compile_definitions", name |-> target.name,
                  items |-> target.compile_definitions]>>
          ELSE <<>>)
    \o unexpected_comments(target.name, target.unexpected)

RECURSIVE write_output(_)
write_output(ts) ==
    IF ts = <<>> THEN <<>> ELSE write_target(Head(ts)) \o write_output(Tail(ts))

-----------------------------------------------------------------------------
(* The files of a run                                                      *)

Path(dir, file) == [dir |-> dir, file |-> file]

\* os.path.join(sln_dir, project_path) for a relative project_path
join(sln_dir, rel) ==
    Path(IF rel.dir = <<>> THEN sln_dir ELSE sln_dir \o <<"\\">> \o rel.dir, rel.file)

\* an input of the command line, after os.path.abspath and os.path.splitext
Input(ext, path) == [ext |-> ext, path |-> path]

\* the project files of the runs checked: "app" is a complete DynamicLibrary
\* project, "exe" an Application project, "bad" is not well-formed XML and
\* "any" stands for every tree of at most MaxChildren children
CatalogueFiles == {"app", "exe", "bad"}

Standalone(f) == Input(".vcxproj", Path(<<"C:", "\\", f>>, f))

SlnDir == <<"C:", "\\", "sln">>

SeqsUpTo(S, n) == UNION {[1..k -> S] : k \in 0..n}

Solution == Input(".sln", Path(SlnDir, "all"))

Unsupported == Input(".txt", Path(<<"C:">>, "notes"))

InputFiles(files) == {Standalone(f) : f \in files} \cup {Solution, Unsupported}

\* a line of a solution is the project path the pattern _re_sln_project_line
\* captures, or None when the pattern does not match it
SlnLine(f) == Some(Path(<<f>>, f))

NoMatchLine == None

\* what reading the solution gives after n lines: a line, or None at its end
SlnLines(files, n) ==
    {None} \cup (IF n < MaxSlnLines
                  THEN {Some(l) : l \in {SlnLine(f) : f \in files} \cup {NoMatchLine}}
                  ELSE {})

ExpectedOutputFile == link_expectations[1].text
ExpectedImportLibrary == link_expectations[2].text

GoodClCompile ==
    [ AdditionalIncludeDirectories |->
          Element(<<"$", "(", "SolutionDir", ")", "inc", ";", "%", "(",
                    "AdditionalIncludeDirectories", ")">>),
      PreprocessorDefinitions |-> Element(<<"FOO", ";", "BAR">>),
      Optimization |-> Element(<<"MaxSpeed">>),
      RuntimeLibrary |-> Element(<<"MultiThreaded">>),
      PrecompiledHeader |-> Element(<<" ">>) ]

GoodLink ==
    [ OutputFile |-> Element(ExpectedOutputFile),
      ImportLibrary |-> Element(ExpectedImportLibrary),
      TargetMachine |-> Element(<<"MachineX64">>) ]

DebugCondition == "'$(Configuration)|$(Platform)'=='Debug|x64'"

\* the children of the root of a catalogue file
CatalogueTree(f) ==
    IF f = "app"
    THEN << PropertyGroup("None", "Globals", Some(Element(<<"App">>)), None),
            PropertyGroup(DebugCondition, "Configuration",
                          None, Some(Element(<<"Application">>))),
            PropertyGroup(ReleaseCondition, "Configuration",
                          None, Some(Element(<<"DynamicLibrary">>))),
            ItemDefinitionGroup(ReleaseCondition, Some(GoodClCompile), Some(GoodLink)) >>
    ELSE IF f = "exe"
    THEN << PropertyGroup("None", "Globals", Some(Element(<<"Exe">>)), None),
            PropertyGroup(ReleaseCondition, "Configuration",
                          None, Some(Element(<<"Application">>))) >>
    ELSE <<>>

Conditions == {"None", ReleaseCondition, DebugCondition}

PropertyGroups ==
    {PropertyGroup(c, "Globals", n, None) :
        c \in Conditions, n \in {None, Some(EmptyElement), Some(Element(<<"App">>))}}
    \cup
    {PropertyGroup(c, "Configuration", None, t) :
        c \in Conditions,
        t \in {None} \cup {Some(Element(<<k>>)) :
                              k \in {"DynamicLibrary", "Application", "StaticLibrary"}}}
    \cup
    {PropertyGroup("None", "UserMacros", None, None)}

Placeholder(tag) == <<"%", "(", tag, ")">>

ClCompiles ==
    {[ AdditionalIncludeDirectories |-> Element(inc),
       PreprocessorDefinitions |-> Element(def),
       Optimization |-> Element(opt),
       RuntimeLibrary |-> Element(<<"MultiThreadedDLL">>),
       PrecompiledHeader |-> pch ] :
        inc \in {<<"$", "(", "ProjectDir", ")", "inc", ";", "$", "(", "SolutionDir", ")">>
                     \o <<";">> \o Placeholder("AdditionalIncludeDirectories"),
                 <<" ">> \o Placeholder("AdditionalIncludeDirectories")},
        def \in {<<"FOO", ";", "BAR">>, Placeholder("PreprocessorDefinitions")},
        opt \in {<<" ", "MaxSpeed", " ">>, <<"Disabled">>},
        pch \in {Element(<<" ">>), EmptyElement}}
    \cup
    {[ PreprocessorDefinitions |-> Element(<<"FOO">>),
       Optimization |-> Element(<<"MaxSpeed">>),
       RuntimeLibrary |-> Element(<<"MultiThreadedDLL">>),
       PrecompiledHeader |-> Element(<<" ">>) ]}

Links == {GoodLink, [GoodLink EXCEPT !.TargetMachine = Element(<<"MachineX86">>)]}

ItemDefinitionGroups ==
    {ItemDefinitionGroup(ReleaseCondition, cl, link) :
        cl \in {None} \cup {Some(c) : c \in ClCompiles},
        link \in {None} \cup {Some(l) : l \in Links}}
    \cup
    {ItemDefinitionGroup(c, Some(GoodClCompile), link) :
        c \in {"None", DebugCondition}, link \in {None, Some(GoodLink)}}

\* the children a project file may have under its root
Nodes ==
    PropertyGroups \cup ItemDefinitionGroups
        \cup {XmlNode("ItemGroup", c, "None", None, None, None, None) :
                 c \in {"None", DebugCondition}}

\* what ET.parse makes of a file: not well-formed, or a root that is or is not
\* a Project element of some namespace
ParseOutcomes(f) ==
    IF f = "any" THEN {[wellformed |-> TRUE, root_is_project |-> b] : b \in BOOLEAN}
    ELSE {[wellformed |-> f # "bad", root_is_project |-> TRUE]}

\* what the iteration over the root gives next: a child, or None at its end
Kids(f, n) ==
    IF f = "any"
    THEN {None} \cup (IF n < MaxChildren THEN {Some(k) : k \in Nodes} ELSE {})
    ELSE IF n < Len(CatalogueTree(f)) THEN {Some(CatalogueTree(f)[n + 1])} ELSE {None}

-----------------------------------------------------------------------------
(* Program.run                                                             *)

\* the file object open() gave for the solution that is the i-th input, and
\* the one ET.parse opened for the n-th project yielded
SlnHandle(i) == [kind |-> "sln", at |-> i]
ProjectHandle(n) == [kind |-> "project", at |-> n]

\* a solution opened without a with block: nothing closes it
with_exit_leak(files, handle) == files

\* leaving the with block of gather_projects_from_sln closes the solution
with_exit(files, handle) == files \ {handle}

\* ET.parse closes the file it opened, in a finally clause
parse_close(files, handle) == files \ {handle}

\* gather_input_files without its else branch: what is no solution is a project
input_kind_lenient(ext) == IF ext = ".sln" THEN "solution" ELSE "project"

\* gather_input_files: the branch an extension takes
input_kind(ext) ==
    IF ext = ".vcxproj" THEN "project"
    ELSE IF ext = ".sln" THEN "solution"
    ELSE "unsupported"

Idle ==
    /\ targets = <<>> /\ out = <<>> /\ idx = 1 /\ sln = None /\ project = None
    /\ open = {} /\ error = None /\ node = None /\ nchild = 0 /\ yielded = <<>>

InitRun(files) ==
    /\ inputs \in SeqsUpTo(files, MaxInputs)
    /\ expand_macros_on \in BOOLEAN
    /\ pc = "gather"
    /\ Idle
    /\ arg = None /\ result = None

Init == InitRun(InputFiles(CatalogueFiles))

\* an exception leaves run(): nothing of the program runs after it
Fail(type) ==
    /\ pc' = "failed"
    /\ error' = Some([type |-> type, at |-> pc])

\* gather_input_files resumed at the head of its loop, up to its next yield,
\* the open() of a solution, or the ValueError
GatherNext ==
    /\ pc = "gather" /\ idx <= Len(inputs)
    /\ LET in == inputs[idx]
       IN  IF input_kind(in.ext) = "project"
           THEN /\ project' = Some([path |-> in.path, sln_dir |-> None])
                /\ yielded' = Append(yielded, [path |-> in.path, sln_dir |-> None, input |-> idx])
                /\ pc' = "read"
                /\ UNCHANGED <<sln, open, error>>
           ELSE IF input_kind(in.ext) = "solution"
           THEN \E can_open \in BOOLEAN :
                    IF can_open
                    THEN /\ sln' = Some([dir |-> in.path.dir, read |-> 0])
                         /\ open' = open \cup {SlnHandle(idx)}
                         /\ pc' = "sln"
                         /\ UNCHANGED <<project, yielded, error>>
                    ELSE /\ Fail("OSError")
                         /\ UNCHANGED <<sln, open, project, yielded>>
           ELSE /\ Fail("ValueError")
                /\ UNCHANGED <<sln, open, project, yielded>>
    /\ UNCHANGED <<inputs, expand_macros_on, targets, out, idx, node, nchild, arg, result>>

\* gather_projects_from_sln, one line of the solution: a matching line is
\* yielded with the file still open; the end of the file leaves the with
\* block and gather_input_files goes on to the next input
SlnNext(lines) ==
    /\ pc = "sln"
    /\ \E got \in lines :
           IF IsNone(got)
           THEN /\ open' = with_exit(open, SlnHandle(idx))
                /\ sln' = None
                /\ idx' = idx + 1
                /\ pc' = "gather"
                /\ UNCHANGED <<project, yielded>>
           ELSE /\ sln' = Some([Val(sln) EXCEPT !.read = @ + 1])
                /\ idx' = idx
                /\ open' = open
                /\ IF IsNone(Val(got))
                   THEN /\ pc' = "sln"
                        /\ UNCHANGED <<project, yielded>>
                   ELSE LET p == join(Val(sln).dir, Val(Val(got)))
                        IN  /\ project' = Some([path |-> p, sln_dir |-> Some(Val(sln).dir)])
                            /\ yielded' = Append(yielded, [path |-> p,
                                   sln_dir |-> Some(Val(sln).dir), input |-> idx])
                            /\ pc' = "read"
    /\ UNCHANGED <<inputs, expand_macros_on, targets, out, error, node, nchild, arg, result>>

\* read_project: ET.parse opens the project file
OpenProject ==
    /\ pc = "read"
    /\ \E can_open \in BOOLEAN :
           IF can_open
           THEN /\ open' = open \cup {ProjectHandle(Len(yielded))}
                /\ pc' = "parse"
                /\ error' = error
           ELSE /\ Fail("OSError")
                /\ open' = open
    /\ UNCHANGED <<inputs, expand_macros_on, targets, out, idx, sln, project, node, nchild,
                   yielded, arg, result>>

\* read_project: ET.parse reads the file and closes it, also when it raises;
\* then process_project up to its loop: start_new_target and the namespace
\* of the root tag
ParseProject ==
    /\ pc = "parse"
    /\ open' = parse_close(open, ProjectHandle(Len(yielded)))
    /\ \E parsed \in ParseOutcomes(Val(project).path.file) :
           IF ~parsed.wellformed
           THEN /\ Fail("ParseError")
                /\ targets' = targets
           ELSE /\ targets' = start_new_target(targets, Val(project))
                /\ IF parsed.root_is_project
                   THEN pc' = "walk" /\ error' = error
                   ELSE Fail("TypeError")
    /\ nchild' = 0
    /\ UNCHANGED <<inputs, expand_macros_on, out, idx, sln, project, node, yielded, arg, result>>

\* process_project, one turn of its loop; at the end of the children run()
\* resumes the generator: inside the solution that is being read, or at the
\* next input
WalkChild ==
    /\ pc = "walk"
    /\ \E kid \in Kids(Val(project).path.file, nchild) :
           IF IsNone(kid)
           THEN /\ pc' = IF IsNone(sln) THEN "gather" ELSE "sln"
                /\ idx' = IF IsNone(sln) THEN idx + 1 ELSE idx
                /\ UNCHANGED <<targets, error, node, nchild>>
           ELSE LET r == visit_child(targets, expand_macros_on, Val(kid))
                IN  /\ node' = kid
                    /\ nchild' = nchild + 1
                    /\ targets' = [targets EXCEPT ![Len(targets)] = r.t]
                    /\ idx' = idx
                    /\ IF IsNone(r.exc) THEN pc' = "walk" /\ error' = error
                       ELSE Fail(Val(r.exc))
    /\ UNCHANGED <<inputs, expand_macros_on, out, sln, project, open, yielded, arg, result>>

\* run() calling write_output inside its loop, after each project
WriteOutputInLoop ==
    /\ pc = "gather"
    /\ out' = write_output(targets)
    /\ pc' = IF idx > Len(inputs) THEN "done" ELSE pc
    /\ UNCHANGED <<inputs, expand_macros_on, targets, idx, sln, project, open, error, node,
                   nchild, yielded, arg, result>>

\* run(): the generator is exhausted and write_output writes every target
WriteOutput ==
    /\ pc = "gather" /\ idx > Len(inputs)
    /\ out' = out \o write_output(targets)
    /\ pc' = "done"
    /\ UNCHANGED <<inputs, expand_macros_on, targets, idx, sln, project, open, error, node,
                   nchild, yielded, arg, result>>

\* the generator suspended inside the with block is finalized after the
\* exception: GeneratorExit at its yield leaves the with block
Finalize ==
    /\ pc = "failed" /\ ~IsNone(sln)
    /\ open' = with_exit(open, SlnHandle(idx))
    /\ sln' = None
    /\ UNCHANGED <<inputs, expand_macros_on, targets, out, pc, idx, project, error, node,
                   nchild, yielded, arg, result>>

Next ==
    \/ GatherNext
    \/ SlnNext(SlnLines(CatalogueFiles, Val(sln).read))
    \/ OpenProject
    \/ ParseProject
    \/ WalkChild
    \/ WriteOutput
    \/ Finalize

Spec == Init /\ [][Next]_vars

-----------------------------------------------------------------------------
(* The run over one project file of any content, standalone or the one     *)
(* project of a solution                                                   *)

InitWalk ==
    /\ inputs \in {<<Standalone("any")>>, <<Solution>>}
    /\ expand_macros_on \in BOOLEAN
    /\ pc = "gather"
    /\ Idle
    /\ arg = None /\ result = None

\* the solution holds one matching line, lines that do not match around it
OneProjectLines ==
    {None} \cup (IF yielded = <<>> THEN {Some(SlnLine("any"))} ELSE {})
           \cup (IF Val(sln).read < MaxSlnLines THEN {Some(NoMatchLine)} ELSE {})

NextWalk ==
    \/ GatherNext
    \/ SlnNext(OneProjectLines)
    \/ OpenProject
    \/ ParseProject
    \/ WalkChild
    \/ WriteOutput
    \/ Finalize

SpecWalk == InitWalk /\ [][NextWalk]_vars

-----------------------------------------------------------------------------
(* The helpers called on their own: expand_macros and process_list on any  *)
(* text, check_expectations on any settings element                        *)

Tokens == {"$", "(", ")", "%", ";", " ", "ProjectDir", "SolutionDir"}

Texts == SeqsUpTo(Tokens, MaxTextLen)

\* a directory may itself be named like a macro
MacroNamedDir == <<"C:", "\\", "$", "(", "ProjectDir", ")">>

HelperTargets ==
    { NewTarget(<<"C:", "\\", "app">>, None),
      NewTarget(SlnDir \o <<"\\", "app">>, Some(SlnDir)),
      NewTarget(MacroNamedDir, None) }

ExpectationTables == {cl_expectations, link_expectations}

TagsOf(table) == {table[k].tag : k \in 1..Len(table)}

ExpectationFor(table, tag) == CHOOSE ex \in {table[k] : k \in 1..Len(table)} : ex.tag = tag

\* the property elements a settings element may hold for an expectation: one
\* whose text is the expected literal, bare or inside whitespace, one with
\* another text, one with no text
PropertyElements(ex) ==
    { Element(ex.text), Element(<<" ">> \o ex.text \o <<" ">>),
      Element(<<"Other">>), EmptyElement }

SettingsOver(table) ==
    UNION { [present -> UNION {PropertyElements(ExpectationFor(table, t)) : t \in present}]
                : present \in SUBSET TagsOf(table) }

SettingsFor(table) ==
    { st \in SettingsOver(table) :
        \A t \in DOMAIN st : st[t] \in PropertyElements(ExpectationFor(table, t)) }

SettingsArgs ==
    UNION { {[kind |-> "settings", settings |-> st, expectations |-> table] :
                st \in {None} \cup {Some(x) : x \in SettingsFor(table)}}
              : table \in ExpectationTables }

PriorUnexpected == <<Expectation("Optimization", <<"MaxSpeed">>), <<"Full">>>>

InitHelpers ==
    /\ inputs = <<>>
    /\ expand_macros_on \in BOOLEAN
    /\ out = <<>> /\ idx = 1 /\ sln = None /\ project = None
    /\ open = {} /\ error = None /\ node = None /\ nchild = 0 /\ yielded = <<>>
    /\ pc = "call"
    /\ result = None
    /\ \/ /\ arg \in {[kind |-> "text", text |-> t] : t \in Texts}
          /\ targets \in {<<t>> : t \in HelperTargets}
       \/ /\ arg \in SettingsArgs
          /\ targets \in {<<[t EXCEPT !.unexpected = u]>> :
                            t \in HelperTargets, u \in {<<>>, <<PriorUnexpected>>}}

CallExpandMacros ==
    /\ pc = "call" /\ arg.kind = "text"
    /\ result' = Some(expand_macros(targets, expand_macros_on, arg.text))
    /\ pc' = "expand_macros"
    /\ UNCHANGED <<inputs, expand_macros_on, targets, out, idx, sln, project, open, error,
                   node, nchild, yielded, arg>>

CallProcessList ==
    /\ pc = "call" /\ arg.kind = "text"
    /\ result' = Some(process_list(targets, expand_macros_on, arg.text))
    /\ pc' = "process_list"
    /\ UNCHANGED <<inputs, expand_macros_on, targets, out, idx, sln, project, open, error,
                   node, nchild, yielded, arg>>

CallCheckExpectations ==
    /\ pc = "call" /\ arg.kind = "settings"
    /\ LET r == check_expectations(current_target(targets), arg.settings, arg.expectations)
       IN  /\ targets' = [targets EXCEPT ![Len(targets)] = r.t]
           /\ IF IsNone(r.exc) THEN pc' = "check_expectations" /\ error' = error
              ELSE Fail(Val(r.exc))
    /\ UNCHANGED <<inputs, expand_macros_on, out, idx, sln, project, open, node, nchild,
                   yielded, arg, result>>

NextHelpers ==
    \/ CallExpandMacros
    \/ CallProcessList
    \/ CallCheckExpectations

SpecHelpers == InitHelpers /\ [][NextHelpers]_vars

-----------------------------------------------------------------------------
(* Properties of a run                                                     *)

\* the yielded pairs whose walk has started: all of them, but for the last one
\* while its file is being opened and parsed or when that failed
NotStarted ==
    \/ pc \in {"read", "parse"}
    \/ pc = "failed" /\ Val(error).at = "read"
    \/ pc = "failed" /\ Val(error).type = "ParseError"

Started == IF NotStarted THEN Len(yielded) - 1 ELSE Len(yielded)

\* the macro table of a target says which project file it was made for
MadeFor(target, y) ==
    target.vs_macros =
        [ ProjectDir |-> Some(y.path.dir \o <<"\\">>),
          SolutionDir |-> IF IsNone(y.sln_dir) THEN None
                          ELSE Some(Val(y.sln_dir) \o <<"\\">>) ]

\* the pairs yielded follow the inputs: a project input gives itself, once,
\* a solution gives projects under its directory, and a later pair never
\* comes from an earlier input
YieldedFollowsInputs ==
    \A k \in 1..Len(yielded) :
        LET y == yielded[k]
        IN  /\ y.input \in 1..Len(inputs)
            /\ y.input <= idx
            /\ \A j \in 1..(k - 1) : yielded[j].input <= y.input
            /\ inputs[y.input].ext \in {".vcxproj", ".sln"}
            /\ inputs[y.input].ext = ".vcxproj" =>
                   /\ y.path = inputs[y.input].path
                   /\ IsNone(y.sln_dir)
                   /\ \A j \in 1..(k - 1) : yielded[j].input < y.input
            /\ inputs[y.input].ext = ".sln" =>
                   /\ y.sln_dir = Some(inputs[y.input].path.dir)
                   /\ startswith(y.path.dir, inputs[y.input].path.dir)

TargetsMirrorInputs ==
    /\ YieldedFollowsInputs
    /\ Len(targets) = Started
    /\ \A k \in 1..Len(targets) : MadeFor(targets[k], yielded[k])

TargetsOnlyGrow ==
    /\ Len(targets') >= Len(targets)
    /\ \A k \in 1..Len(targets) : targets'[k].vs_macros = targets[k].vs_macros
    /\ \A k \in 1..(Len(targets) - 1) : targets'[k] = targets[k]

\* C1: after every step of a run the targets are, one for one and in order,
\* the targets of the project files whose walk was started, in the order the
\* projects stand in the inputs (a solution's projects in the order of its
\* matching lines, where the solution stands); a step only appends a target
\* or changes the last one, it never removes or reorders targets.
C1_TargetsInInputOrder == [][TargetsMirrorInputs' /\ TargetsOnlyGrow]_vars

\* a finished run over a solution with two projects followed by a project file
C1_Witness ==
    /\ pc = "done"
    /\ Len(targets) = 3
    /\ ~IsNone(targets[1].vs_macros.SolutionDir)
    /\ ~IsNone(targets[2].vs_macros.SolutionDir)
    /\ IsNone(targets[3].vs_macros.SolutionDir)

OpenOf(kind) == {h \in open : h.kind = kind}

\* C2 as stated: in every state at most one input file is open, and no file
\* is open once run() has ended, normally or by a failure.
C2_AtMostOneFileOpen ==
    /\ Cardinality(open) <= 1
    /\ pc \in {"done", "failed"} => open = {}

\* C2, amended: at most one project file and at most one solution file are
\* open at a time; a project file is open only while ET.parse reads it and is
\* closed when parsing ends or fails; a solution stays open while its lines
\* are read and its projects are opened, parsed and walked, is closed when
\* its last line has been read, before the next input is taken, and after a
\* failure in one of its projects it stays open until the suspended generator
\* is finalized.
C2_ProjectClosedSolutionHeld ==
    /\ Cardinality(OpenOf("project")) <= 1
    /\ Cardinality(OpenOf("sln")) <= 1
    /\ OpenOf("project") # {} <=> pc = "parse"
    /\ OpenOf("project") \subseteq {ProjectHandle(Len(yielded))}
    /\ OpenOf("sln") # {} <=> ~IsNone(sln)
    /\ OpenOf("sln") # {} =>
           /\ OpenOf("sln") = {SlnHandle(idx)}
           /\ idx <= Len(inputs) /\ inputs[idx].ext = ".sln"
           /\ pc \in {"sln", "read", "parse", "walk", "failed"}
           /\ pc = "failed" => Val(error).at \in {"read", "parse", "walk"}
    /\ pc \in {"gather", "done"} => open = {}

\* a project of a solution is being parsed: both files are open
C2_Witness ==
    /\ pc = "parse"
    /\ open = {SlnHandle(idx), ProjectHandle(Len(yielded))}
    /\ Len(targets) >= 1

UnsupportedInput == pc = "gather" /\ idx <= Len(inputs) /\ inputs[idx].ext \notin {".sln", ".vcxproj"}

\* C7: at an input whose extension is neither .sln nor .vcxproj the run ends
\* with a ValueError; that step opens no file, yields no project and leaves
\* the targets as they are, and after it no input is read and no target is
\* created or changed.
C7_UnsupportedInputAborts ==
    [][ /\ UnsupportedInput =>
              /\ pc' = "failed"
              /\ error' = Some([type |-> "ValueError", at |-> "gather"])
              /\ UNCHANGED <<targets, yielded, open, out, idx>>
        /\ (pc = "failed" /\ Val(error).type = "ValueError") =>
              /\ pc' = "failed"
              /\ UNCHANGED <<targets, yielded, out, idx, error>>
              /\ open' \subseteq open ]_vars

\* the run was aborted at an unsupported second input, after a first input
\* that gave a target and before a third
C7_Witness ==
    /\ pc = "failed" /\ Val(error).type = "ValueError"
    /\ idx = 2 /\ Len(inputs) > idx
    /\ Len(targets) = 1 /\ ~IsNone(targets[1].name)

\* C9: nothing is written before every input has been gathered and walked
\* without an error: while the run goes on and after any failure the output
\* is empty, whatever targets the list holds, and once something is written
\* the run is done with every input consumed and every file closed.
C9_OutputAllOrNothing ==
    /\ pc # "done" => out = <<>>
    /\ pc = "done" =>
           /\ IsNone(error)
           /\ idx > Len(inputs)
           /\ open = {}
           /\ out = write_output(targets)

\* a run that failed in the walk of its second project: both targets are in
\* the list, the first complete, and nothing was written
C9_Witness ==
    /\ pc = "failed" /\ Val(error).type = "KeyError"
    /\ Len(targets) = 2
    /\ targets[1].type = "SHARED_LIBRARY"
    /\ ~IsNone(targets[2].name)
    /\ out = <<>>

-----------------------------------------------------------------------------
(* Properties of the walk                                                  *)

\* a step of the loop of process_project that takes a child of the root
ChildTaken == pc = "walk" /\ nchild' = nchild + 1

\* C4: a child of the root is visited exactly when it has no Condition
\* attribute or its Condition is the Release|x64 string: then the step does
\* to the current target what the body of the loop does for that child (and
\* fails when the body fails); a child with any other Condition leaves every
\* field of the current target, the other targets and the run as they are.
C4_ConditionFilter ==
    [][ ChildTaken =>
          LET n == Val(node')
          IN  IF n.Condition \in {"None", "'$(Configuration)|$(Platform)'=='Release|x64'"}
              THEN LET r == process_node(targets, expand_macros_on, n)
                   IN  /\ targets' = [targets EXCEPT ![Len(targets)] = r.t]
                       /\ (pc' = "failed") <=> ~IsNone(r.exc)
              ELSE /\ targets' = targets
                   /\ pc' = "walk"
                   /\ UNCHANGED <<error, out, open>> ]_vars

\* after a Globals group that named the target, a Configuration group of the
\* Debug configuration with a type the mapping does not know was skipped
C4_Witness ==
    /\ pc = "walk" /\ nchild = 2
    /\ node = Some(PropertyGroup(DebugCondition, "Configuration",
                                 None, Some(Element(<<"Application">>))))
    /\ current_target(targets).name = Some(<<"App">>)
    /\ current_target(targets).type = "None"

CreationDecls == {"add_executable", "add_library"}

CreationAt == {k \in 1..Len(out) : out[k].decl \in CreationDecls}

\* the block of the j-th creation declaration: up to the next one
BlockOf(k) ==
    LET later == {m \in CreationAt : m > k}
        stop == IF later = {} THEN Len(out) + 1
                ELSE CHOOSE m \in later : \A x \in later : m <= x
    IN  SubSeq(out, k, stop - 1)

QualifierOf(type) ==
    IF type = "SHARED_LIBRARY" THEN "SHARED"
    ELSE IF type = "STATIC_LIBRARY" THEN "STATIC"
    ELSE "None"

Has(block, decl) == \E m \in 1..Len(block) : block[m].decl = decl

\* C8 as stated: what write_output writes is one block per target, in list
\* order; each block begins with one creation declaration that names its
\* target, add_executable for an Executable, add_library with SHARED or
\* STATIC for a library, and holds an include-directories or
\* compile-definitions declaration exactly when the target's list is not
\* empty.
C8_OneDeclaredBlockPerTarget ==
    pc = "done" =>
        /\ Cardinality(CreationAt) = Len(targets)
        /\ out # <<>> => 1 \in CreationAt
        /\ \A k \in CreationAt :
               LET j == Cardinality({m \in CreationAt : m <= k})
                   t == targets[j]
               IN  /\ out[k].name = t.name
                   /\ out[k].decl = IF t.type = "EXECUTABLE" THEN "add_executable"
                                    ELSE "add_library"
                   /\ out[k].qualifier = QualifierOf(t.type)
                   /\ t.type \in {"EXECUTABLE", "SHARED_LIBRARY", "STATIC_LIBRARY"}
                   /\ Has(BlockOf(k), "target_include_directories")
                          <=> t.include_directories # <<>>
                   /\ Has(BlockOf(k), "target_compile_definitions")
                          <=> t.compile_definitions # <<>>

\* the pairs check_expectations has to record for a Link element all of
\* whose properties have a text
LinkMismatches(link) ==
    LET observed == [k \in 1..Len(link_expectations) |->
                        <<link_expectations[k],
                          strip(Val(link[link_expectations[k].tag].text))>>]
        differs(p) == p[2] # p[1].text
    IN  SelectSeq(observed, differs)

EndsWith(s, tail) ==
    Len(s) >= Len(tail) /\ SubSeq(s, Len(s) - Len(tail) + 1, Len(s)) = tail

KindsUnsetOrShared ==
    \A k \in 1..Len(targets) : targets[k].type \in {"None", "SHARED_LIBRARY"}

NoExecutableNoStatic ==
    \A k \in 1..Len(out) :
        /\ out[k].decl # "add_executable"
        /\ out[k].decl = "add_library" => out[k].qualifier = "SHARED"

LinkAlwaysChecked ==
    (ChildTaken /\ Val(node').tag = "ItemDefinitionGroup"
                /\ Val(node').Condition \in {"None", ReleaseCondition}) =>
        /\ IsNone(Val(node').Link) => pc' = "failed"
        /\ pc' = "walk" =>
               /\ ~IsNone(Val(node').Link)
               /\ EndsWith(current_target(targets').unexpected,
                           LinkMismatches(Val(Val(node').Link)))

\* C10: the kind of every target is unset or SharedLibrary in every state;
\* so every visited ItemDefinitionGroup has its Link expectations checked,
\* whether or not the kind was set before (the walk fails when there is no
\* Link element, and records the Link mismatches last otherwise), and the
\* output never holds an add_executable or a STATIC declaration.
C10_OnlySharedLibraries ==
    [][KindsUnsetOrShared' /\ NoExecutableNoStatic' /\ LinkAlwaysChecked]_vars

\* an ItemDefinitionGroup visited before any Configuration group: the kind
\* is unset and the mismatch of its Link element was recorded
C10_Witness ==
    /\ pc = "walk" /\ nchild = 1
    /\ Val(node).tag = "ItemDefinitionGroup"
    /\ current_target(targets).type = "None"
    /\ current_target(targets).unexpected # <<>>
    /\ current_target(targets).unexpected[Len(current_target(targets).unexpected)]
           = <<link_expectations[3], <<"MachineX86">>>>

-----------------------------------------------------------------------------
(* Properties of the helpers                                               *)

\* C3 as stated: on a settings element that has every expected property,
\* check_expectations does not fail and leaves in the unexpected list what
\* was there followed by one (expectation, trimmed text) pair for each
\* expectation whose trimmed text differs from the expected literal, in table
\* order.
C3_MismatchNeverFatal ==
    (arg # None /\ arg.kind = "settings" /\ pc # "call" /\ ~IsNone(arg.settings)
         /\ \A k \in 1..Len(arg.expectations) :
                arg.expectations[k].tag \in DOMAIN Val(arg.settings)) =>
        /\ pc = "check_expectations"
        /\ \E prior \in {<<>>, <<PriorUnexpected>>} :
             \E kept \in SUBSET (1..Len(arg.expectations)) :
               LET table == arg.expectations
                   text(k) == strip(Val(Val(arg.settings)[table[k].tag].text))
                   pairs == [k \in 1..Len(table) |-> <<k, table[k], text(k)>>]
                   picked(p) == p[1] \in kept
                   chosen == SelectSeq(pairs, picked)
               IN  /\ kept = {k \in 1..Len(table) : text(k) # table[k].text}
                   /\ current_target(targets).unexpected
                          = prior \o [m \in 1..Len(chosen) |-> <<chosen[m][2], chosen[m][3]>>]

\* the places of text where the pattern \$\(([^)]*)\) matches when the scan
\* stands there: "$(" with a ")" somewhere behind it
MatchStarts(text) ==
    {k \in 1..Len(text) :
        /\ k + 2 <= Len(text)
        /\ text[k] = "$" /\ text[k + 1] = "("
        /\ \E m \in (k + 2)..Len(text) : text[m] = ")"}

Least(S) == CHOOSE m \in S : \A x \in S : m <= x

\* what the macro table gives for a name: the project directory and, for a
\* project of a solution, the solution directory
KnownValue(target, name) ==
    IF name = <<"ProjectDir">> THEN target.vs_macros.ProjectDir
    ELSE IF name = <<"SolutionDir">> THEN target.vs_macros.SolutionDir
    ELSE None

\* C5: expand_macros returns a text without a $(...) token unchanged, and
\* every text unchanged when expansion is disabled; otherwise the result is
\* the text before the first token, then the table's value for the token's
\* name when expansion is enabled and the name has one, the token as written
\* when not (so $(SolutionDir) of a standalone project stays), then the
\* expansion of what follows the token: the inserted value is not scanned
\* again.
C5_ExpandMacros ==
    pc = "expand_macros" =>
        LET text == arg.text
            starts == MatchStarts(text)
        IN  /\ ~expand_macros_on => Val(result) = text
            /\ starts = {} => Val(result) = text
            /\ starts # {} =>
                 LET k == Least(starts)
                     m == Least({x \in (k + 2)..Len(text) : text[x] = ")"})
                     value == KnownValue(targets[1], SubSeq(text, k + 2, m - 1))
                 IN  Val(result) =
                         SubSeq(text, 1, k - 1)
                             \o (IF expand_macros_on /\ ~IsNone(value)
                                   THEN Val(value) ELSE SubSeq(text, k, m))
                             \o expand_macros(targets, expand_macros_on,
                                              SubSeq(text, m + 1, Len(text)))

\* $(ProjectDir) expanded for a project in a directory named $(ProjectDir):
\* the value is inserted and not expanded again
C5_Witness ==
    /\ pc = "expand_macros" /\ expand_macros_on
    /\ arg.text = <<"$", "(", "ProjectDir", ")">>
    /\ targets[1].vs_macros.ProjectDir = Some(MacroNamedDir \o <<"\\">>)
    /\ result = Some(<<"C:", "\\", "$", "(", "ProjectDir", ")", "\\">>)

\* the text between the first and the last token that is no blank
Trimmed(text) ==
    LET solid == {k \in 1..Len(text) : text[k] # " "}
    IN  IF solid = {} THEN <<>>
        ELSE SubSeq(text, Least(solid), CHOOSE m \in solid : \A x \in solid : x <= m)

\* the m-th item of a semicolon-delimited text
ItemOf(text, m) ==
    LET seps == {k \in 1..Len(text) : text[k] = ";"}
        nth(j) == IF j = 0 THEN 0
                  ELSE IF j > Cardinality(seps) THEN Len(text) + 1
                  ELSE CHOOSE k \in seps : Cardinality({x \in seps : x <= k}) = j
    IN  SubSeq(text, nth(m - 1) + 1, nth(m) - 1)

ItemCount(text) == Cardinality({k \in 1..Len(text) : text[k] = ";"}) + 1

====
